---- MODULE Spec2Model ----
(***************************************************************************)
(* Model of the AI image editor: the Express backend (src/server.js), the  *)
(* fetch transport (src/services/geminiService.ts) and the React App       *)
(* component with its mask canvas (src/unnamed/part_000).                  *)
(*                                                                         *)
(* Strings are sequences of tokens.  A token is an atomic piece of text;   *)
(* the needles the code searches for ('API key not valid', '429',          *)
(* 'Image generation failed:') are tokens of their own, and no other token *)
(* of the model contains one of them, so String.includes / startsWith are  *)
(* decided on tokens.  The empty string is <<>>.  A JavaScript object is a *)
(* record whose absent fields are undefined; null is the record Null.      *)
(***************************************************************************)
EXTENDS Integers, Sequences, FiniteSets, TLC

Null == [null |-> TRUE]

\* ---------------------------------------------------------------- strings

\* String.prototype.includes for a one-token needle.
Includes(s, needle) == \E i \in 1..Len(s) : s[i] = needle

\* String.prototype.startsWith for a one-token prefix.
StartsWith(s, prefix) == Len(s) >= 1 /\ s[1] = prefix

\* obj.field of a JavaScript object is truthy: present and not ''.
Truthy(obj, f) == f \in DOMAIN obj /\ obj[f] # <<>>

\* The MIME types.  After 'image/' the subtype is spelled character by
\* character, for the expression of handleReEdit to read.
MimePng == <<"image/", "p", "n", "g">>
MimeJpeg == <<"image/", "j", "p", "e", "g">>
MimeWebp == <<"image/", "w", "e", "b", "p">>

\* ----------------------------------------------------------------- server

\* The needles of handleApiErrorResponse.
KeyNeedle == "API key not valid"
RateNeedle == "429"
FailedPrefix == "Image generation failed:"

GenericMessage == <<"Failed to process request due to an API error.">>
KeyMessage == <<"The provided API key is not valid.">>
RateMessage == <<"API rate limit exceeded. Please try again later.">>

\* A thrown value: error instanceof Error, and its message.
Thrown(isError, message) == [isError |-> isError, message |-> message]

\* handleApiErrorResponse: the status and body sent for a caught error.
handleApiErrorResponse(error) ==
    IF error.isError /\ Includes(error.message, KeyNeedle)
    THEN [status |-> 401, json |-> [error |-> KeyMessage]]
    ELSE IF error.isError /\ Includes(error.message, RateNeedle)
    THEN [status |-> 429, json |-> [error |-> RateMessage]]
    ELSE IF error.isError /\ StartsWith(error.message, FailedPrefix)
    THEN [status |-> 400, json |-> [error |-> error.message]]
    ELSE [status |-> 500, json |-> [error |-> GenericMessage]]

\* res.json(x) without res.status: Express answers 200.
Ok200(json) == [status |-> 200, json |-> json]

\* --- /api/generate

GenerateRequired == <<"Prompt and aspect ratio are required.">>

\* if (!prompt || !aspectRatio) return 400
GenerateValid(body) == Truthy(body, "prompt") /\ Truthy(body, "aspectRatio")

\* The argument of ai.models.generateImages.
GenerateModelRequest(body) ==
    [model |-> "imagen-4.0-generate-001",
     prompt |-> body.prompt,
     config |-> [numberOfImages |-> 1,
                 outputMimeType |-> MimeJpeg,
                 aspectRatio |-> body.aspectRatio]]

NoImageGenerate == <<"No image data received from the API.">>

\* response.generatedImages?.[0]?.image?.imageBytes, '' when the chain is
\* undefined (both are falsy).
FirstImageBytes(response) ==
    IF "generatedImages" \in DOMAIN response /\ Len(response.generatedImages) >= 1
       /\ "image" \in DOMAIN response.generatedImages[1]
       /\ "imageBytes" \in DOMAIN response.generatedImages[1].image
    THEN response.generatedImages[1].image.imageBytes
    ELSE <<>>

\* The interpretation of the model's answer in /api/generate, with the catch.
GenerateInterpret(outcome) ==
    IF outcome.kind = "reject"
    THEN handleApiErrorResponse(outcome.error)
    ELSE IF FirstImageBytes(outcome.response) # <<>>
    THEN Ok200([imageBase64 |-> FirstImageBytes(outcome.response)])
    ELSE handleApiErrorResponse(Thrown(TRUE, NoImageGenerate))

\* --- /api/edit

EditRequired == <<"Prompt, image data, and mimeType are required.">>

\* mutant of EditValid: an empty imageBase64Data is let through.
EditValidEmptyImage(body) ==
    Truthy(body, "prompt") /\ "imageBase64Data" \in DOMAIN body
    /\ Truthy(body, "mimeType")

\* if (!prompt || !imageBase64Data || !mimeType) return 400
EditValid(body) ==
    Truthy(body, "prompt") /\ Truthy(body, "imageBase64Data")
    /\ Truthy(body, "mimeType")

MaskInstructionHead ==
    "Using the provided black and white mask image, apply the following edit only to the BLACK areas of the original image, leaving the white areas unchanged: \""
MaskInstructionTail == "\""

\* The template literal of the masked instruction.
MaskInstruction(prompt) ==
    <<MaskInstructionHead>> \o prompt \o <<MaskInstructionTail>>

InlinePart(data, mimeType) ==
    [inlineData |-> [data |-> data, mimeType |-> mimeType]]
TextPart(text) == [text |-> text]

\* mutant of EditParts: the mask keeps the original image's mimeType.
EditPartsMaskMime(body) ==
    IF Truthy(body, "maskBase64Data")
    THEN << InlinePart(body.imageBase64Data, body.mimeType),
            InlinePart(body.maskBase64Data, body.mimeType),
            TextPart(MaskInstruction(body.prompt)) >>
    ELSE << InlinePart(body.imageBase64Data, body.mimeType),
            TextPart(body.prompt) >>

\* mutant of EditParts: the unmasked instruction is wrapped like the masked.
EditPartsWrapPrompt(body) ==
    IF Truthy(body, "maskBase64Data")
    THEN << InlinePart(body.imageBase64Data, body.mimeType),
            InlinePart(body.maskBase64Data, MimePng),
            TextPart(MaskInstruction(body.prompt)) >>
    ELSE << InlinePart(body.imageBase64Data, body.mimeType),
            TextPart(MaskInstruction(body.prompt)) >>

\* The parts array built by /api/edit.
EditParts(body) ==
    IF Truthy(body, "maskBase64Data")
    THEN << InlinePart(body.imageBase64Data, body.mimeType),
            InlinePart(body.maskBase64Data, MimePng),
            TextPart(MaskInstruction(body.prompt)) >>
    ELSE << InlinePart(body.imageBase64Data, body.mimeType),
            TextPart(body.prompt) >>

\* config.systemInstruction of the edit call.
SystemInstruction ==
    <<"You are an expert AI image editor. Your task is to take the user's image and their text prompt as a direct instruction to modify the image. If a black and white mask image is also provided, you MUST only apply the edits described in the prompt to the BLACK areas of the original image. The white areas of the mask indicate parts of the image that should remain unchanged. You must only return the edited image. Do not engage in conversation, ask for clarification, or respond with text. Apply the edit and output the resulting image.">>

\* The argument of ai.models.generateContent.
EditModelRequest(body) ==
    [model |-> "gemini-2.5-flash-image",
     contents |-> [parts |-> EditParts(body)],
     config |-> [systemInstruction |-> SystemInstruction,
                 responseModalities |-> <<"IMAGE", "TEXT">>]]

NoImageEdit == <<"No image data was received from the API.">>

\* response.candidates?.[0]?.content?.parts, [] when the chain is undefined:
\* no candidates, a first candidate without content, content without parts.
ResponseParts(response) ==
    IF /\ "candidates" \in DOMAIN response
       /\ Len(response.candidates) >= 1
       /\ "content" \in DOMAIN response.candidates[1]
       /\ "parts" \in DOMAIN response.candidates[1].content
    THEN response.candidates[1].content.parts
    ELSE <<>>

\* part.inlineData?.data is truthy.
HasInlineData(part) ==
    "inlineData" \in DOMAIN part /\ Truthy(part.inlineData, "data")

\* parts.find(part => part.inlineData?.data): the index of the first such
\* part, 0 when there is none.
FindImagePart(parts) ==
    IF \E i \in 1..Len(parts) : HasInlineData(parts[i])
    THEN CHOOSE i \in 1..Len(parts) :
            /\ HasInlineData(parts[i])
            /\ \A j \in 1..(i - 1) : ~HasInlineData(parts[j])
    ELSE 0

RECURSIVE ConcatText(_)
\* The text of the parts, concatenated in order.
ConcatText(parts) ==
    IF parts = <<>> THEN <<>>
    ELSE (IF "text" \in DOMAIN parts[1] THEN parts[1].text ELSE <<>>)
         \o ConcatText(Tail(parts))

\* response.text: the text parts of the first candidate joined.
ResponseText(response) == ConcatText(ResponseParts(response))

\* The template literal of the GenerationFailed error.
FailedMessage(text) == <<FailedPrefix, " ">> \o text

\* The interpretation of the model's answer in /api/edit, with the catch.
EditInterpret(outcome) ==
    IF outcome.kind = "reject"
    THEN handleApiErrorResponse(outcome.error)
    ELSE LET parts == ResponseParts(outcome.response)
             i == FindImagePart(parts)
             textResponse == ResponseText(outcome.response)
         IN  IF i # 0
             THEN Ok200([imageBase64 |-> parts[i].inlineData.data])
             ELSE IF textResponse # <<>>
             THEN handleApiErrorResponse(Thrown(TRUE, FailedMessage(textResponse)))
             ELSE handleApiErrorResponse(Thrown(TRUE, NoImageEdit))

\* -------------------------------------------------------------- transport

UnknownError == <<"An unknown error occurred.">>
MissingImage == <<"Invalid response from server: missing imageBase64 data.">>
\* The message of the SyntaxError response.json() rejects with when the
\* body is not JSON; the text is the engine's, here for the body '<html>'.
NotJson == <<"Unexpected token '<', \"<html>\" is not valid JSON">>
FetchFailed == <<"Failed to fetch">>

\* `Request failed with status ${response.status}`
StatusMessage(status) == <<"Request failed with status ", ToString(status)>>

\* JSON.stringify(body): fields whose value is undefined (here: the null
\* string <<>> of an optional argument) are left out.
EditBody(prompt, imageBase64Data, mimeType, maskBase64Data) ==
    IF maskBase64Data = <<>>
    THEN [prompt |-> prompt, imageBase64Data |-> imageBase64Data,
          mimeType |-> mimeType]
    ELSE [prompt |-> prompt, imageBase64Data |-> imageBase64Data,
          mimeType |-> mimeType, maskBase64Data |-> maskBase64Data]

GenerateBody(prompt, aspectRatio) ==
    [prompt |-> prompt, aspectRatio |-> aspectRatio]

\* What the awaited call gives its caller.
Returned(value) == [kind |-> "return", value |-> value]
Threw(error) == [kind |-> "throw", error |-> error]

\* An HTTP response as fetch sees it: response.ok is status in 200..299; the
\* body is JSON (isJson, json) or not.  reject: fetch itself failed.
HttpOk(response) == response.status >= 200 /\ response.status <= 299

\* fetchApi, from the response on.
fetchApi(response) ==
    IF response.reject THEN Threw(Thrown(TRUE, FetchFailed))
    ELSE IF ~HttpOk(response)
    THEN LET errorData == IF response.isJson THEN response.json
                          ELSE [error |-> UnknownError]
         IN  Threw(Thrown(TRUE, IF Truthy(errorData, "error")
                                THEN errorData.error
                                ELSE StatusMessage(response.status)))
    ELSE IF ~response.isJson THEN Threw(Thrown(TRUE, NotJson))
    ELSE Returned(response.json)

\* mutant of ImageFromResponse: data.imageBase64 is returned unchecked, and
\* the template literal of handleApiResponse renders undefined.
ImageFromResponseUnchecked(response) ==
    LET data == fetchApi(response)
    IN  IF data.kind = "throw" THEN data
        ELSE Returned(IF "imageBase64" \in DOMAIN data.value
                      THEN data.value.imageBase64 ELSE <<"undefined">>)

\* generateImage / editImage, from the response on: the imageBase64 string
\* or the error thrown.
ImageFromResponse(response) ==
    LET data == fetchApi(response)
    IN  IF data.kind = "throw" THEN data
        ELSE IF ~Truthy(data.value, "imageBase64")
        THEN Threw(Thrown(TRUE, MissingImage))
        ELSE Returned(data.value.imageBase64)

\* ------------------------------------------------------------- data URLs

\* `data:${mime};base64,${data}`
DataUrl(mime, data) == <<"data:">> \o mime \o <<";base64", ",">> \o data

\* The index of the first ',' of s at or after i, Len(s) + 1 when none.
RECURSIVE NextComma(_, _)
NextComma(s, i) ==
    IF i > Len(s) THEN Len(s) + 1
    ELSE IF s[i] = "," THEN i
    ELSE NextComma(s, i + 1)

\* s.split(',')[1], <<>> when s holds no comma.
SplitComma1(s) ==
    LET c1 == NextComma(s, 1)
        c2 == NextComma(s, c1 + 1)
    IN  IF c1 > Len(s) THEN <<>> ELSE SubSeq(s, c1 + 1, c2 - 1)

\* The characters \w matches.
WordChars ==
    {"a", "b", "c", "d", "e", "f", "g", "h", "i", "j", "k", "l", "m",
     "n", "o", "p", "q", "r", "s", "t", "u", "v", "w", "x", "y", "z",
     "A", "B", "C", "D", "E", "F", "G", "H", "I", "J", "K", "L", "M",
     "N", "O", "P", "Q", "R", "S", "T", "U", "V", "W", "X", "Y", "Z",
     "0", "1", "2", "3", "4", "5", "6", "7", "8", "9", "_"}

\* \w+ from position i of s: the position after the run of word characters
\* that starts at i (i itself when there is none).
RECURSIVE WordRun(_, _)
WordRun(s, i) ==
    IF i <= Len(s) /\ s[i] \in WordChars THEN WordRun(s, i + 1) ELSE i

\* generatedImage.match(/data:(image\/\w+);base64,/), then group 1 or the
\* default 'image/jpeg'.  The match is the leftmost one.
MatchMimeType(s) ==
    LET matchesAt(i) ==
            /\ i + 1 <= Len(s)
            /\ s[i] = "data:" /\ s[i + 1] = "image/"
            /\ LET e == WordRun(s, i + 2)
               IN  /\ e > i + 2
                   /\ e + 1 <= Len(s)
                   /\ s[e] = ";base64" /\ s[e + 1] = ","
    IN  IF \E i \in 1..Len(s) : matchesAt(i)
        THEN LET i == CHOOSE k \in 1..Len(s) :
                        matchesAt(k) /\ \A j \in 1..(k - 1) : ~matchesAt(j)
             IN  SubSeq(s, i + 1, WordRun(s, i + 2) - 1)
        ELSE MimeJpeg

\* ---------------------------------------------------------- mask canvas

(***************************************************************************)
(* A canvas is its backing size and its bitmap.  The bitmap is kept as the *)
(* set `shapes` of the disks and lines painted on it since it was last     *)
(* cleared, all in the one opaque stroke colour, less the shapes that      *)
(* another one hides; the pixel buffer that getImageData gives is read off *)
(* the shapes by PixelAt.  Paths are anti-aliased: a pixel that lies whole  *)
(* in a shape holds the stroke colour, a pixel the shape covers in part    *)
(* holds it with an alpha that is the implementation's choice, and PixelAt *)
(* gives the set of the colours the pixel may hold.                        *)
(* Points are measured in half pixels, so that the corners and the centres *)
(* of pixels are whole numbers.                                            *)
(***************************************************************************)

\* The size of a canvas element that was given none (HTML: 300 x 150).
DefaultWidth == 300
DefaultHeight == 150

\* canvas.getBoundingClientRect(): the square the canvas is displayed in
\* (className 'absolute inset-0 w-full h-full' inside 'aspect-square').
RectWidth == 300
RectHeight == 300

Transparent == <<0, 0, 0, 0>>
\* strokeStyle = fillStyle = 'rgba(0, 0, 0, 1)'
StrokeColour == <<0, 0, 0, 255>>
\* fillStyle = 'white'
White == <<255, 255, 255, 255>>

\* A canvas element as React mounts it.
NewCanvas == [width |-> DefaultWidth, height |-> DefaultHeight, shapes |-> {}]

Min(a, b) == IF a <= b THEN a ELSE b
Max(a, b) == IF a >= b THEN a ELSE b

\* The greatest common divisor of a >= 0 and b >= 0, not both 0.
RECURSIVE Gcd(_, _)
Gcd(a, b) == IF b = 0 THEN a ELSE Gcd(b, a % b)

\* The number n / d, d > 0, in lowest terms.
Frac(n, d) ==
    LET g == Gcd(IF n < 0 THEN -n ELSE n, d)
    IN  [n |-> n \div g, d |-> d \div g]

\* getCanvasCoords: the pointer's offset in the displayed rectangle, scaled
\* by canvas.width / rect.width and canvas.height / rect.height.  The
\* coordinates are the exact quotients, of which the code has the nearest
\* doubles.
getCanvasCoords(canvas, offset) ==
    [x |-> Frac(offset[1] * canvas.width, RectWidth),
     y |-> Frac(offset[2] * canvas.height, RectHeight)]

\* ctx.arc(c.x, c.y, r, 0, 2 * Math.PI); ctx.fill()
Arc(c, r) == [a |-> c, b |-> c, r |-> r, fill |-> TRUE]

\* ctx.moveTo(a); ctx.lineTo(b); ctx.stroke() with lineWidth 2r, round caps
Line(a, b, r) == [a |-> a, b |-> b, r |-> r, fill |-> FALSE]

\* The columns and rows of the canvas a shape can reach.
ShapeColumns(canvas, s) ==
    Max(0, Min(s.a.x.n \div s.a.x.d, s.b.x.n \div s.b.x.d) - s.r)
        .. Min(canvas.width - 1,
               Max(s.a.x.n \div s.a.x.d, s.b.x.n \div s.b.x.d) + s.r)
ShapeRows(canvas, s) ==
    Max(0, Min(s.a.y.n \div s.a.y.d, s.b.y.n \div s.b.y.d) - s.r)
        .. Min(canvas.height - 1,
               Max(s.a.y.n \div s.a.y.d, s.b.y.n \div s.b.y.d) + s.r)

\* The shape s in whole numbers: its points and its radius in the unit
\* 1 / s.unit of a pixel, an even number that the denominators of its
\* coordinates divide.
Scaled(s) ==
    LET lcm(a, b) == (a * b) \div Gcd(a, b)
        u == 2 * lcm(lcm(s.a.x.d, s.a.y.d), lcm(s.b.x.d, s.b.y.d))
        at(c) == [x |-> c.x.n * (u \div c.x.d), y |-> c.y.n * (u \div c.y.d)]
    IN  [a |-> at(s.a), b |-> at(s.b), r |-> u * s.r, fill |-> s.fill,
         unit |-> u]

\* The corners of the pixel in column x and row y, in the unit 1 / u.
Corners(x, y, u) ==
    {<<u * x, u * y>>, <<u * x + u, u * y>>,
     <<u * x, u * y + u>>, <<u * x + u, u * y + u>>}

\* The point p is within r of the point c; with inner, it is less than r
\* away.
InDisk(p, c, r, inner) ==
    LET d2 == (p[1] - c.x) * (p[1] - c.x) + (p[2] - c.y) * (p[2] - c.y)
    IN  IF inner THEN d2 < r * r ELSE d2 <= r * r

\* The point p is within r of the segment a-b; with inner, it is less than
\* r away.
InCapsule(p, a, b, r, inner) ==
    LET ex == b.x - a.x
        ey == b.y - a.y
        len2 == ex * ex + ey * ey
        dot == (p[1] - a.x) * ex + (p[2] - a.y) * ey
        cross == (p[1] - a.x) * ey - (p[2] - a.y) * ex
    IN  IF dot <= 0 THEN InDisk(p, a, r, inner)
        ELSE IF dot >= len2 THEN InDisk(p, b, r, inner)
        ELSE IF inner THEN cross * cross < r * r * len2
        ELSE cross * cross <= r * r * len2

\* The point p lies in the scaled shape t; with inner, not on its outline.
\* A filled arc is its disk; a stroked line is what lies within r of it,
\* and nothing when it has no length (zero-length segments are pruned when
\* a path is traced).
Covers(t, p, inner) ==
    IF t.fill THEN InDisk(p, t.a, t.r, inner)
    ELSE t.a # t.b /\ InCapsule(p, t.a, t.b, t.r, inner)

\* The pixel (x, y) lies whole in the shape s: its corners do, the shapes
\* being convex.
Full(s, x, y) ==
    LET t == Scaled(s)
    IN  \A p \in Corners(x, y, t.unit) : Covers(t, p, FALSE)

\* The point c is less than r away from the pixel (x, y), in the unit 1 / u.
NearPixel(c, x, y, r, u) ==
    LET dx == Max(Max(u * x - c.x, c.x - u * x - u), 0)
        dy == Max(Max(u * y - c.y, c.y - u * y - u), 0)
    IN  dx * dx + dy * dy < r * r

\* The shape s covers an area of the pixel (x, y): an end of it is less
\* than r away from the pixel or a corner of the pixel lies inside it (a
\* brush is wider than a pixel, so a line that crosses the pixel has its
\* corners in reach).  A pixel that meets the outline of s in a point only
\* is not covered.
Touches(s, x, y) ==
    LET t == Scaled(s)
    IN  /\ t.fill \/ t.a # t.b
        /\ \/ NearPixel(t.a, x, y, t.r, t.unit)
           \/ NearPixel(t.b, x, y, t.r, t.unit)
           \/ \E p \in Corners(x, y, t.unit) : Covers(t, p, TRUE)

\* The colours of a pixel whose centre a shape covers: the stroke colour
\* with an alpha that is not 0.
Marked == {<<0, 0, 0, a>> : a \in 1..255}

\* The colours of a pixel that is covered in part with its centre left
\* out: the stroke colour with the alpha the rasteriser gives it, from 0
\* for a sliver to 255 for a rim painted over more than once.
Partial == {<<0, 0, 0, a>> : a \in 0..255}

\* The colours getImageData may read at column x, row y.
PixelAt(canvas, x, y) ==
    LET centred(s) ==
            LET t == Scaled(s)
                h == t.unit \div 2
            IN  Covers(t, <<t.unit * x + h, t.unit * y + h>>, FALSE)
    IN  IF \E s \in canvas.shapes : Full(s, x, y) THEN {StrokeColour}
        ELSE IF \E s \in canvas.shapes : centred(s) THEN Marked
        ELSE IF \E s \in canvas.shapes : Touches(s, x, y) THEN Partial
        ELSE {Transparent}

\* The shape s paints nothing on any canvas.
Blank(s) == ~s.fill /\ s.a = s.b

\* What t covers, s covers as well: t is blank, or t is no wider than s and
\* runs between end points of s.
Hides(s, t) ==
    \/ Blank(t)
    \/ ~Blank(s) /\ t.r <= s.r /\ {t.a, t.b} \subseteq {s.a, s.b}

\* Painting the shape s in the stroke colour (source-over, opaque).
Paint(canvas, s) ==
    IF \E t \in canvas.shapes : Hides(t, s) THEN canvas
    ELSE IF Blank(s) THEN canvas
    ELSE [canvas EXCEPT !.shapes = {t \in @ : ~Hides(s, t)} \cup {s}]

\* The drawing part of draw: the line from lastPos to coords, then the disk
\* at coords.
DrawStroke(canvas, from, to, brush) ==
    Paint(Paint(canvas, Line(from, to, brush)), Arc(to, brush))

\* mutant of ClearRect: clearRect is not called.
ClearRectNothing(canvas) == canvas

\* ctx.clearRect(0, 0, canvas.width, canvas.height)
ClearRect(canvas) == [canvas EXCEPT !.shapes = {}]

\* Setting canvas.width / canvas.height resets the bitmap to transparent.
Resize(canvas, w, h) == [width |-> w, height |-> h, shapes |-> {}]

\* isCanvasEmpty: !pixelBuffer.some(color => color !== 0), as the set of
\* the values the test may give: TRUE when every pixel may read 0, FALSE
\* when some pixel may read another value.  A pixel out of reach of every
\* shape holds 0, so the others are the ones looked at.
isCanvasEmpty(canvas) ==
    {e \in BOOLEAN :
        IF e
        THEN \A s \in canvas.shapes :
                \A y \in ShapeRows(canvas, s) :
                   \A x \in ShapeColumns(canvas, s) :
                      Transparent \in PixelAt(canvas, x, y)
        ELSE \E s \in canvas.shapes :
                \E y \in ShapeRows(canvas, s) :
                   \E x \in ShapeColumns(canvas, s) :
                      PixelAt(canvas, x, y) # {Transparent}}

\* source-over of src onto an opaque dst: each channel is blended by the
\* alpha of src, and the result is opaque.
SourceOver(src, dst) ==
    LET channel(i) == (src[i] * src[4] + dst[i] * (255 - src[4])) \div 255
    IN  <<channel(1), channel(2), channel(3), 255>>

\* The temporary canvas of getMaskAsBase64: same size, filled white, the
\* drawing canvas drawn over it.
MaskComposite(canvas) ==
    [width |-> canvas.width, height |-> canvas.height, over |-> canvas.shapes]

\* The colours the composite may hold at column x, row y.
CompositeAt(composite, x, y) ==
    {SourceOver(src, White) : src \in PixelAt([shapes |-> composite.over], x, y)}

\* canvas.toDataURL('image/png'): the PNG of the bitmap, its base64 text
\* being one token that names what was painted.
toDataURL(bitmap) == DataUrl(MimePng, <<ToString(bitmap)>>)

\* getMaskAsBase64, as the set of what it may return: <<>> stands for null.
getMaskAsBase64(canvas) ==
    IF canvas = Null THEN {<<>>}
    ELSE {IF e THEN <<>> ELSE SplitComma1(toDataURL(MaskComposite(canvas))) :
             e \in isCanvasEmpty(canvas)}

\* ------------------------------------------------------------ App state

(***************************************************************************)
(* The state of the App component.  The string states that may be null     *)
(* (generatedImage, comparisonImage, error) hold <<>> for null: the code   *)
(* only ever tests them for truthiness, and never stores ''.               *)
(*   canvas      drawingCanvasRef.current: Null while the canvas is not    *)
(*               mounted (it is rendered only in edit mode with an image)  *)
(*   imageLoads  the Image objects of the setup effect whose onload has    *)
(*               not run yet and whose canvas is still mounted             *)
(*   fileReads   the FileReader reads that have not completed              *)
(*   inflight    the calls awaiting the backend, each with the mode and    *)
(*               uploadedImage its handler closed over                     *)
(*   generateEnv the mode and uploadedImage the memoised handleGenerate    *)
(*               closed over (its deps are [prompt, aspectRatio])          *)
(*   editEnv     the mode the memoised handleEdit closed over (its deps    *)
(*               are [prompt, uploadedImage])                              *)
(* and two history variables, written by the actions and read only by the  *)
(* properties:                                                             *)
(*   maskLog     "stroked" once draw has painted, "cleared" once clearMask *)
(*               has followed strokes, "fresh" since uploadedImage was     *)
(*               last set or removed or an image load last completed       *)
(*   clickLog    "pressed" from startDrawing until the pointer moves,      *)
(*               "moved" from draw until the release, "none" otherwise     *)
(***************************************************************************)
VARIABLES mode, prompt, uploadedImage, aspectRatio, generatedImage,
          comparisonImage, history, isLoading, error, brushSize,
          isDrawing, lastPos, canvas, imageLoads, fileReads, inflight,
          generateEnv, editEnv, maskLog, clickLog

appVars == <<mode, prompt, uploadedImage, aspectRatio, generatedImage,
             comparisonImage, history, isLoading, error, brushSize,
             isDrawing, lastPos, canvas, imageLoads, fileReads, inflight,
             generateEnv, editEnv, maskLog, clickLog>>

\* The state of the backend: one request at a time, none shared.
\*   srvPc       "idle", "awaiting" (the model was called) or "responded"
\*   srvRequest  the endpoint and body of the request, Null when idle
\*   srvCalls    the requests sent to the external model for this request
\*   srvOutcome  what the external model settled with, Null before
\*   srvResponse the HTTP response sent, Null before
VARIABLES srvPc, srvRequest, srvCalls, srvOutcome, srvResponse

srvVars == <<srvPc, srvRequest, srvCalls, srvOutcome, srvResponse>>

vars == <<appVars, srvVars>>

\* ------------------------------------------------------------------ bounds

\* Successful results a behaviour of Spec may collect.
MaxResults == 2
\* Calls that may await the backend at once when handlers are invoked
\* directly.
MaxInflight == 2
\* Image loads and file reads that may be pending at once.
MaxLoads == 2
MaxReads == 1
\* Brush sizes tried above the slider's minimum.
MaxBrushStep == 0
\* Shapes, none hiding another, a canvas may show at once.
MaxShapes == 1

\* The slider: min 5, max 50; useState(20).
BrushMin == 5
BrushMax == 50
InitialBrush == 20
BrushSizes ==
    {b \in BrushMin..BrushMax : b <= BrushMin + MaxBrushStep} \cup {InitialBrush}

\* history.slice(0, 6)
HistoryLimit == 6

\* const maxSizeInBytes = 8 * 1024 * 1024
MaxSizeInBytes == 8 * 1024 * 1024

\* mutant of AllowedTypes: GIF is let through.
AllowedTypesWithGif ==
    {MimePng, MimeJpeg, MimeWebp, <<"image/", "g", "i", "f">>}

\* const allowedTypes
AllowedTypes == {MimePng, MimeJpeg, MimeWebp}

\* ------------------------------------------------------------------ inputs

Prompts == {<<>>, <<" ">>, <<"add a hat">>}
SomePrompts == {<<>>, <<"add a hat">>}
AspectRatios == {<<"1:1">>, <<"16:9">>}

\* Files the user may pick: type, size and base64 content.
GoodFiles ==
    {[type |-> MimePng, size |-> 1024, data |-> <<"A">>],
     [type |-> MimeJpeg, size |-> MaxSizeInBytes, data |-> <<"B">>]}
Files ==
    GoodFiles \cup
    {[type |-> <<"image/", "g", "i", "f">>, size |-> 1024,
      data |-> <<"A">>],
     [type |-> MimePng, size |-> MaxSizeInBytes + 1, data |-> <<"B">>]}

\* img.naturalWidth and img.naturalHeight of the image a data URL encodes.
NaturalSize(dataUrl) ==
    LET data == SplitComma1(dataUrl)
    IN  IF data = <<"A">> THEN <<300, 300>>
        ELSE IF data = <<"B">> THEN <<200, 300>>
        ELSE IF data = <<"R1">> THEN <<600, 600>>
        ELSE <<300, 600>>

\* Pointer positions, as offsets in the displayed rectangle.
Offsets == {<<0, 0>>, <<1, 2>>}

\* The two plain answers of the backend: an image, or an error body.
GoodResponses ==
    {[reject |-> FALSE, status |-> 200, isJson |-> TRUE,
      json |-> [imageBase64 |-> <<"R1">>]]}

\* What the backend may answer a call with, as fetch sees it.
Responses ==
    GoodResponses \cup
    {[reject |-> FALSE, status |-> 401, isJson |-> TRUE,
      json |-> [error |-> KeyMessage]],
     [reject |-> FALSE, status |-> 200, isJson |-> TRUE,
      json |-> [imageBase64 |-> <<"R2">>]],
     [reject |-> FALSE, status |-> 200, isJson |-> TRUE,
      json |-> [other |-> <<"x">>]],
     [reject |-> FALSE, status |-> 429, isJson |-> TRUE,
      json |-> [error |-> RateMessage]],
     [reject |-> FALSE, status |-> 502, isJson |-> FALSE, json |-> Null],
     [reject |-> FALSE, status |-> 503, isJson |-> TRUE,
      json |-> [error |-> <<>>]],
     [reject |-> TRUE, status |-> 0, isJson |-> FALSE, json |-> Null]}

\* ------------------------------------------------------------ App logic

\* The characters String.prototype.trim removes: the white space and the
\* line terminators of ECMAScript.  After the space, tab, line feed, form
\* feed and carriage return come U+000B, U+00A0, U+1680 and U+FEFF as
\* themselves; the characters a string of this module cannot hold (U+2000
\* to U+200A, U+2028, U+2029, U+202F, U+205F, U+3000) are written as their
\* JavaScript escape, one token for the one character.
IsSpace(token) ==
    token \in
    {" ", "\t", "\n", "\f", "\r", "", " ", " ", "﻿",
     "\\u2000", "\\u2001", "\\u2002", "\\u2003", "\\u2004",
     "\\u2005", "\\u2006", "\\u2007", "\\u2008", "\\u2009",
     "\\u200A", "\\u2028", "\\u2029", "\\u202F", "\\u205F",
     "\\u3000"}

RECURSIVE TrimStart(_)
TrimStart(s) ==
    IF s # <<>> /\ IsSpace(s[1]) THEN TrimStart(Tail(s)) ELSE s

RECURSIVE TrimEnd(_)
TrimEnd(s) ==
    IF s # <<>> /\ IsSpace(s[Len(s)])
    THEN TrimEnd(SubSeq(s, 1, Len(s) - 1)) ELSE s

\* mutant of Trim: nothing is trimmed.
TrimNothing(s) == s

\* String.prototype.trim
Trim(s) == TrimEnd(TrimStart(s))

\* s without its i-th element.
Remove(s, i) == SubSeq(s, 1, i - 1) \o SubSeq(s, i + 1, Len(s))

\* array.slice(0, n)
Slice0(s, n) == SubSeq(s, 1, Min(n, Len(s)))

\* mutant of PushHistory: a full history takes no new entry.
PushHistoryWhenRoom(h, imageUrl) ==
    IF Len(h) >= HistoryLimit THEN h ELSE <<imageUrl>> \o h

\* mutant of PushHistory: the new result is appended at the tail.
PushHistoryAtTail(h, imageUrl) == Slice0(h \o <<imageUrl>>, HistoryLimit)

\* setHistory(prev => [imageUrl, ...prev].slice(0, 6))
PushHistory(h, imageUrl) == Slice0(<<imageUrl>> \o h, HistoryLimit)

PleaseEnterPrompt == <<"Please enter a prompt.">>
PleaseEnterInstruction == <<"Please enter an edit instruction.">>
PleaseUpload == <<"Please upload an image to edit.">>
InvalidFileType ==
    <<"Invalid file type. Please upload a PNG, JPG, or WEBP image.">>
FileTooLarge == <<"File is too large. Maximum size is 8MB.">>
FailedToRead == <<"Failed to read the file.">>

\* handleApiError: the message stored in error.
ApiErrorMessage(err) ==
    <<"Failed to generate image: ">>
    \o (IF err.isError THEN err.message ELSE UnknownError)

\* mutant of isEditDisabled: isLoading is not looked at.
isEditDisabledNoLoading == Trim(prompt) = <<>> \/ uploadedImage = Null

\* const isGenerateDisabled / isEditDisabled
isGenerateDisabled == isLoading \/ Trim(prompt) = <<>>
isEditDisabled == isLoading \/ Trim(prompt) = <<>> \/ uploadedImage = Null

\* The canvases are rendered: mode === 'edit' && uploadedImage.
CanvasShown(m, u) == m = "edit" /\ u # Null

\* The result block with the history is rendered.
ResultShown == ~isLoading /\ error = <<>> /\ generatedImage # <<>>

(***************************************************************************)
(* What a render does after a handler changed mode, prompt, aspectRatio or *)
(* uploadedImage (stored means setUploadedImage was given a new object):   *)
(* the canvas is mounted or unmounted, the setup effect runs when          *)
(* uploadedImage changed, and the memoised handlers are renewed when one   *)
(* of their deps changed.  A canvas that is mounted anew is a new element; *)
(* loads still pending for an unmounted element no longer reach a canvas   *)
(* of the document and are dropped.                                        *)
(***************************************************************************)
Render(stored) ==
    LET shown == CanvasShown(mode', uploadedImage')
        kept == IF canvas # Null /\ shown THEN imageLoads ELSE <<>>
    IN  /\ canvas' = IF ~shown THEN Null
                     ELSE IF canvas = Null THEN NewCanvas ELSE canvas
        /\ imageLoads' = IF stored /\ shown
                         THEN Append(kept, uploadedImage'.dataUrl)
                         ELSE kept
        /\ Len(imageLoads') <= MaxLoads
        /\ generateEnv' =
              IF prompt' # prompt \/ aspectRatio' # aspectRatio
              THEN [mode |-> mode', uploadedImage |-> uploadedImage']
              ELSE generateEnv
        /\ editEnv' =
              IF prompt' # prompt \/ stored \/ uploadedImage' # uploadedImage
              THEN [mode |-> mode'] ELSE editEnv

\* --- the tabs, the textarea and the aspect ratio buttons

SetMode(m) ==
    /\ m \in {"generate", "edit"}
    /\ m # mode
    /\ mode' = m
    /\ UNCHANGED <<prompt, uploadedImage, aspectRatio>>
    /\ Render(FALSE)
    /\ UNCHANGED <<generatedImage, comparisonImage, history, isLoading, error,
                   brushSize, isDrawing, lastPos, fileReads, inflight>>
    /\ UNCHANGED maskLog
    /\ UNCHANGED clickLog
    /\ UNCHANGED srvVars

SetPrompt(p) ==
    /\ ~isLoading
    /\ p # prompt
    /\ prompt' = p
    /\ UNCHANGED <<mode, uploadedImage, aspectRatio>>
    /\ Render(FALSE)
    /\ UNCHANGED <<generatedImage, comparisonImage, history, isLoading, error,
                   brushSize, isDrawing, lastPos, fileReads, inflight>>
    /\ UNCHANGED maskLog
    /\ UNCHANGED clickLog
    /\ UNCHANGED srvVars

SetAspectRatio(a) ==
    /\ mode = "generate"
    /\ ~isLoading
    /\ a # aspectRatio
    /\ aspectRatio' = a
    /\ UNCHANGED <<mode, prompt, uploadedImage>>
    /\ Render(FALSE)
    /\ UNCHANGED <<generatedImage, comparisonImage, history, isLoading, error,
                   brushSize, isDrawing, lastPos, fileReads, inflight>>
    /\ UNCHANGED maskLog
    /\ UNCHANGED clickLog
    /\ UNCHANGED srvVars

\* --- submitting

\* clearState
ClearState ==
    /\ error' = <<>>
    /\ generatedImage' = <<>>
    /\ comparisonImage' = <<>>

\* A call to the backend and the closure its continuation runs in.
Call(endpoint, body, m, u) ==
    [endpoint |-> endpoint, body |-> body, mode |-> m, uploadedImage |-> u]

\* handleGenerate, up to its await.
handleGenerate ==
    /\ IF Trim(prompt) = <<>>
       THEN /\ error' = PleaseEnterPrompt
            /\ UNCHANGED <<isLoading, generatedImage, comparisonImage, inflight>>
       ELSE /\ Len(inflight) < MaxInflight
            /\ isLoading' = TRUE
            /\ ClearState
            /\ inflight' = Append(inflight,
                  Call("/api/generate", GenerateBody(prompt, aspectRatio),
                       generateEnv.mode, generateEnv.uploadedImage))
    /\ UNCHANGED <<mode, prompt, uploadedImage, aspectRatio, history, brushSize,
                   isDrawing, lastPos, canvas, imageLoads, fileReads,
                   generateEnv, editEnv>>
    /\ UNCHANGED maskLog
    /\ UNCHANGED clickLog
    /\ UNCHANGED srvVars

\* handleEdit, up to its await.
handleEdit ==
    /\ IF Trim(prompt) = <<>>
       THEN /\ error' = PleaseEnterInstruction
            /\ UNCHANGED <<isLoading, generatedImage, comparisonImage, inflight>>
       ELSE IF uploadedImage = Null
       THEN /\ error' = PleaseUpload
            /\ UNCHANGED <<isLoading, generatedImage, comparisonImage, inflight>>
       ELSE /\ Len(inflight) < MaxInflight
            /\ isLoading' = TRUE
            /\ ClearState
            /\ \E maskBase64 \in getMaskAsBase64(canvas) :
                  inflight' = Append(inflight,
                     Call("/api/edit",
                          EditBody(prompt, SplitComma1(uploadedImage.dataUrl),
                                   uploadedImage.mimeType, maskBase64),
                          editEnv.mode, uploadedImage))
    /\ UNCHANGED <<mode, prompt, uploadedImage, aspectRatio, history, brushSize,
                   isDrawing, lastPos, canvas, imageLoads, fileReads,
                   generateEnv, editEnv>>
    /\ UNCHANGED maskLog
    /\ UNCHANGED clickLog
    /\ UNCHANGED srvVars

\* A click on the submit button, which is disabled as the render computed;
\* results bounds the results collected so far.
ClickSubmit(results) ==
    /\ Len(history) < results
    /\ IF mode = "generate"
       THEN ~isGenerateDisabled /\ handleGenerate
       ELSE ~isEditDisabled /\ handleEdit

\* handleApiResponse then finally, or handleApiError then finally: the
\* continuation of the i-th call once the backend answered with response.
Settle(i, response) ==
    /\ i \in 1..Len(inflight)
    /\ LET call == inflight[i]
           result == ImageFromResponse(response)
       IN  IF result.kind = "return"
           THEN LET imageUrl == DataUrl(MimeJpeg, result.value)
                IN  /\ generatedImage' = imageUrl
                    /\ comparisonImage' =
                          IF call.mode = "edit" /\ call.uploadedImage # Null
                          THEN call.uploadedImage.dataUrl
                          ELSE comparisonImage
                    /\ history' = PushHistory(history, imageUrl)
                    /\ UNCHANGED error
           ELSE /\ error' = ApiErrorMessage(result.error)
                /\ UNCHANGED <<generatedImage, comparisonImage, history>>
    /\ isLoading' = FALSE
    /\ inflight' = Remove(inflight, i)
    /\ UNCHANGED <<mode, prompt, uploadedImage, aspectRatio, brushSize,
                   isDrawing, lastPos, canvas, imageLoads, fileReads,
                   generateEnv, editEnv>>
    /\ UNCHANGED maskLog
    /\ UNCHANGED clickLog
    /\ UNCHANGED srvVars

\* --- uploading

\* processFile, reached from handleFileChange and handleDrop; the upload
\* area is rendered in edit mode while there is no image.
processFile(file) ==
    /\ mode = "edit" /\ uploadedImage = Null
    /\ IF file.type \notin AllowedTypes
       THEN error' = InvalidFileType /\ UNCHANGED fileReads
       ELSE IF file.size > MaxSizeInBytes
       THEN error' = FileTooLarge /\ UNCHANGED fileReads
       ELSE /\ Len(fileReads) < MaxReads
            /\ error' = <<>>
            /\ fileReads' = Append(fileReads, file)
    /\ UNCHANGED <<mode, prompt, uploadedImage, aspectRatio, generatedImage,
                   comparisonImage, history, isLoading, brushSize, isDrawing,
                   lastPos, canvas, imageLoads, inflight, generateEnv, editEnv>>
    /\ UNCHANGED maskLog
    /\ UNCHANGED clickLog
    /\ UNCHANGED srvVars

\* reader.onload of the i-th pending read
ReaderOnload(i) ==
    /\ i \in 1..Len(fileReads)
    /\ uploadedImage' = [dataUrl |-> DataUrl(fileReads[i].type, fileReads[i].data),
                         mimeType |-> fileReads[i].type]
    /\ fileReads' = Remove(fileReads, i)
    /\ UNCHANGED <<mode, prompt, aspectRatio>>
    /\ Render(TRUE)
    /\ UNCHANGED <<generatedImage, comparisonImage, history, isLoading, error,
                   brushSize, isDrawing, lastPos, inflight>>
    /\ maskLog' = "fresh"
    /\ UNCHANGED clickLog
    /\ UNCHANGED srvVars

\* reader.onerror of the i-th pending read
ReaderOnerror(i) ==
    /\ i \in 1..Len(fileReads)
    /\ error' = FailedToRead
    /\ fileReads' = Remove(fileReads, i)
    /\ UNCHANGED <<mode, prompt, uploadedImage, aspectRatio, generatedImage,
                   comparisonImage, history, isLoading, brushSize, isDrawing,
                   lastPos, canvas, imageLoads, inflight, generateEnv, editEnv>>
    /\ UNCHANGED maskLog
    /\ UNCHANGED clickLog
    /\ UNCHANGED srvVars

\* The Remove button next to the brush.
RemoveImage ==
    /\ CanvasShown(mode, uploadedImage)
    /\ uploadedImage' = Null
    /\ UNCHANGED <<mode, prompt, aspectRatio>>
    /\ Render(FALSE)
    /\ UNCHANGED <<generatedImage, comparisonImage, history, isLoading, error,
                   brushSize, isDrawing, lastPos, fileReads, inflight>>
    /\ maskLog' = "fresh"
    /\ UNCHANGED clickLog
    /\ UNCHANGED srvVars

\* img.onload of the i-th pending load of the setup effect
ImageOnload(i) ==
    /\ i \in 1..Len(imageLoads)
    /\ canvas # Null
    /\ LET size == NaturalSize(imageLoads[i])
       IN  canvas' = ClearRect(Resize(canvas, size[1], size[2]))
    /\ imageLoads' = Remove(imageLoads, i)
    /\ UNCHANGED <<mode, prompt, uploadedImage, aspectRatio, generatedImage,
                   comparisonImage, history, isLoading, error, brushSize,
                   isDrawing, lastPos, fileReads, inflight, generateEnv, editEnv>>
    /\ maskLog' = "fresh"
    /\ UNCHANGED clickLog
    /\ UNCHANGED srvVars

\* --- painting

startDrawing(offset) ==
    /\ canvas # Null
    /\ isDrawing' = TRUE
    /\ lastPos' = getCanvasCoords(canvas, offset)
    /\ UNCHANGED <<mode, prompt, uploadedImage, aspectRatio, generatedImage,
                   comparisonImage, history, isLoading, error, brushSize,
                   canvas, imageLoads, fileReads, inflight, generateEnv, editEnv>>
    /\ UNCHANGED maskLog
    /\ clickLog' = "pressed"
    /\ UNCHANGED srvVars

draw(offset) ==
    /\ canvas # Null
    /\ isDrawing
    /\ lastPos # Null
    /\ LET coords == getCanvasCoords(canvas, offset)
       IN  /\ canvas' = DrawStroke(canvas, lastPos, coords, brushSize)
           /\ Cardinality(canvas'.shapes) <= MaxShapes
           /\ lastPos' = coords
    /\ UNCHANGED <<mode, prompt, uploadedImage, aspectRatio, generatedImage,
                   comparisonImage, history, isLoading, error, brushSize,
                   isDrawing, imageLoads, fileReads, inflight, generateEnv,
                   editEnv>>
    /\ maskLog' = "stroked"
    /\ clickLog' = "moved"
    /\ UNCHANGED srvVars

stopDrawing ==
    /\ canvas # Null
    /\ isDrawing
    /\ isDrawing' = FALSE
    /\ lastPos' = Null
    /\ UNCHANGED <<mode, prompt, uploadedImage, aspectRatio, generatedImage,
                   comparisonImage, history, isLoading, error, brushSize,
                   canvas, imageLoads, fileReads, inflight, generateEnv, editEnv>>
    /\ UNCHANGED maskLog
    /\ clickLog' = "none"
    /\ UNCHANGED srvVars

clearMask ==
    /\ canvas # Null
    /\ canvas' = ClearRect(canvas)
    /\ UNCHANGED <<mode, prompt, uploadedImage, aspectRatio, generatedImage,
                   comparisonImage, history, isLoading, error, brushSize,
                   isDrawing, lastPos, imageLoads, fileReads, inflight,
                   generateEnv, editEnv>>
    /\ maskLog' = IF maskLog = "stroked" THEN "cleared" ELSE maskLog
    /\ UNCHANGED clickLog
    /\ UNCHANGED srvVars

SetBrushSize(b) ==
    /\ canvas # Null
    /\ b # brushSize
    /\ brushSize' = b
    /\ UNCHANGED <<mode, prompt, uploadedImage, aspectRatio, generatedImage,
                   comparisonImage, history, isLoading, error, isDrawing,
                   lastPos, canvas, imageLoads, fileReads, inflight,
                   generateEnv, editEnv>>
    /\ UNCHANGED maskLog
    /\ UNCHANGED clickLog
    /\ UNCHANGED srvVars

\* --- the result block

\* A click on the i-th history item.
HistoryClick(i) ==
    /\ ResultShown
    /\ i \in 1..Len(history)
    /\ generatedImage' = history[i]
    /\ comparisonImage' = <<>>
    /\ UNCHANGED <<mode, prompt, uploadedImage, aspectRatio, history, isLoading,
                   error, brushSize, isDrawing, lastPos, canvas, imageLoads,
                   fileReads, inflight, generateEnv, editEnv>>
    /\ UNCHANGED maskLog
    /\ UNCHANGED clickLog
    /\ UNCHANGED srvVars

\* handleReEdit; its button is rendered with the plain result, not with the
\* comparator.
handleReEdit ==
    /\ ResultShown /\ comparisonImage = <<>>
    /\ mode' = "edit"
    /\ uploadedImage' = [dataUrl |-> generatedImage,
                         mimeType |-> MatchMimeType(generatedImage)]
    /\ prompt' = <<>>
    /\ generatedImage' = <<>>
    /\ comparisonImage' = <<>>
    /\ error' = <<>>
    /\ UNCHANGED aspectRatio
    /\ Render(TRUE)
    /\ UNCHANGED <<history, isLoading, brushSize, isDrawing, lastPos,
                   fileReads, inflight>>
    /\ maskLog' = "fresh"
    /\ UNCHANGED clickLog
    /\ UNCHANGED srvVars

\* --------------------------------------------------------- backend steps

\* Records over a subset of the fields: a JSON body with fields left out.
PromptValues == {<<>>, <<"add a hat">>, <<"make it ", "429">>}
ImageValues == {<<>>, <<"A">>, <<"B">>}
MimeValues == {MimePng, MimeJpeg}
MaskValues == {<<>>, <<"M">>}

GenerateBodies ==
    {[prompt |-> p, aspectRatio |-> a] : p \in PromptValues, a \in AspectRatios \cup {<<>>}}
    \cup {[prompt |-> p] : p \in PromptValues}
    \cup {[aspectRatio |-> a] : a \in AspectRatios}
    \cup {[unrelated |-> <<"x">>]}

EditBodies ==
    {[prompt |-> p, imageBase64Data |-> d, mimeType |-> m] :
        p \in PromptValues, d \in ImageValues, m \in MimeValues}
    \cup {[prompt |-> p, imageBase64Data |-> d, mimeType |-> m, maskBase64Data |-> k] :
        p \in PromptValues, d \in ImageValues, m \in MimeValues, k \in MaskValues}
    \cup {[prompt |-> p, imageBase64Data |-> d] : p \in PromptValues, d \in ImageValues}
    \cup {[prompt |-> p, mimeType |-> m, maskBase64Data |-> k] :
        p \in PromptValues, m \in MimeValues, k \in MaskValues}
    \cup {[imageBase64Data |-> d, mimeType |-> m] : d \in ImageValues, m \in MimeValues}

\* What the SDK may throw.
UpstreamErrors ==
    {Thrown(TRUE, <<"[400] ", KeyNeedle, ". Please pass a valid API key.">>),
     Thrown(TRUE, <<"got status: ", RateNeedle, " Too Many Requests">>),
     Thrown(TRUE, <<"got status: ", RateNeedle, " ", KeyNeedle>>),
     Thrown(TRUE, <<"fetch failed">>),
     Thrown(FALSE, <<"got status: ", RateNeedle>>)}

Rejected(e) == [kind |-> "reject", error |-> e]
Resolved(response) == [kind |-> "resolve", response |-> response]

\* What ai.models.generateImages may settle with.
GenerateOutcomes ==
    {Rejected(e) : e \in UpstreamErrors}
    \cup {Resolved([generatedImages |-> g]) :
            g \in {<<>>,
                   <<[image |-> [imageBytes |-> <<"R1">>]]>>,
                   <<[image |-> [imageBytes |-> <<>>]]>>,
                   <<[image |-> [mimeType |-> MimeJpeg]]>>,
                   <<[raiFilteredReason |-> <<"blocked">>]>>,
                   <<[image |-> [imageBytes |-> <<"R2">>]],
                     [image |-> [imageBytes |-> <<"R1">>]]>>}}
    \cup {Resolved([positivePromptSafetyAttributes |-> <<>>])}

\* The texts and parts the edit model may answer with.
ModelParts ==
    {TextPart(t) : t \in {<<>>, <<"I cannot edit this image.">>,
                          <<"error ", RateNeedle>>,
                          <<"the ", KeyNeedle, " text">>}}
    \cup {InlinePart(d, MimePng) : d \in {<<>>, <<"R1">>, <<"R2">>}}

\* What ai.models.generateContent may settle with.
EditOutcomes ==
    {Rejected(e) : e \in UpstreamErrors}
    \cup {Resolved([candidates |-> <<>>]),
          Resolved([candidates |-> <<[finishReason |-> <<"SAFETY">>]>>]),
          Resolved([candidates |-> <<[content |-> [role |-> <<"model">>]]>>])}
    \cup {Resolved([candidates |-> <<[content |-> [parts |-> <<a>>]]>>]) :
            a \in ModelParts}
    \cup {Resolved([candidates |-> <<[content |-> [parts |-> <<a, b>>]]>>]) :
            a \in ModelParts, b \in ModelParts}

\* app.post('/api/generate'), up to its await or its early return.
PostGenerate(body) ==
    /\ srvPc = "idle"
    /\ srvRequest' = [endpoint |-> "/api/generate", body |-> body]
    /\ IF ~GenerateValid(body)
       THEN /\ srvResponse' = [status |-> 400, json |-> [error |-> GenerateRequired]]
            /\ srvCalls' = <<>>
            /\ srvPc' = "responded"
       ELSE /\ srvCalls' = <<GenerateModelRequest(body)>>
            /\ srvResponse' = Null
            /\ srvPc' = "awaiting"
    /\ UNCHANGED srvOutcome
    /\ UNCHANGED appVars

\* app.post('/api/generate'), from the settling of generateImages on.
GenerateSettles(outcome) ==
    /\ srvPc = "awaiting"
    /\ srvRequest.endpoint = "/api/generate"
    /\ srvOutcome' = outcome
    /\ srvResponse' = GenerateInterpret(outcome)
    /\ srvPc' = "responded"
    /\ UNCHANGED <<srvRequest, srvCalls>>
    /\ UNCHANGED appVars

\* app.post('/api/edit'), up to its await or its early return.
PostEdit(body) ==
    /\ srvPc = "idle"
    /\ srvRequest' = [endpoint |-> "/api/edit", body |-> body]
    /\ IF ~EditValid(body)
       THEN /\ srvResponse' = [status |-> 400, json |-> [error |-> EditRequired]]
            /\ srvCalls' = <<>>
            /\ srvPc' = "responded"
       ELSE /\ srvCalls' = <<EditModelRequest(body)>>
            /\ srvResponse' = Null
            /\ srvPc' = "awaiting"
    /\ UNCHANGED srvOutcome
    /\ UNCHANGED appVars

\* app.post('/api/edit'), from the settling of generateContent on.
EditSettles(outcome) ==
    /\ srvPc = "awaiting"
    /\ srvRequest.endpoint = "/api/edit"
    /\ srvOutcome' = outcome
    /\ srvResponse' = EditInterpret(outcome)
    /\ srvPc' = "responded"
    /\ UNCHANGED <<srvRequest, srvCalls>>
    /\ UNCHANGED appVars

\* The request is over; the next one starts from nothing.
NextRequest ==
    /\ srvPc = "responded"
    /\ srvPc' = "idle"
    /\ srvRequest' = Null
    /\ srvCalls' = <<>>
    /\ srvOutcome' = Null
    /\ srvResponse' = Null
    /\ UNCHANGED appVars

\* ---------------------------------------------------------- specifications

Init ==
    /\ mode = "generate"
    /\ prompt = <<>>
    /\ uploadedImage = Null
    /\ aspectRatio = <<"1:1">>
    /\ generatedImage = <<>>
    /\ comparisonImage = <<>>
    /\ history = <<>>
    /\ isLoading = FALSE
    /\ error = <<>>
    /\ brushSize = InitialBrush
    /\ isDrawing = FALSE
    /\ lastPos = Null
    /\ canvas = Null
    /\ imageLoads = <<>>
    /\ fileReads = <<>>
    /\ inflight = <<>>
    /\ generateEnv = [mode |-> "generate", uploadedImage |-> Null]
    /\ editEnv = [mode |-> "generate"]
    /\ maskLog = "fresh"
    /\ clickLog = "none"
    /\ srvPc = "idle"
    /\ srvRequest = Null
    /\ srvCalls = <<>>
    /\ srvOutcome = Null
    /\ srvResponse = Null

\* The tabs.
ModeEvent == \E m \in {"generate", "edit"} : SetMode(m)

\* The textarea, typing one of prompts.
PromptEvent(prompts) == \E p \in prompts : SetPrompt(p)

\* The aspect ratio buttons.
AspectEvent == \E a \in AspectRatios : SetAspectRatio(a)

\* The backend answering a call with one of responses.
SettleEvent(responses) ==
    \E i \in 1..MaxInflight, r \in responses : Settle(i, r)

\* Picking or dropping a file, and the file read completing.
UploadEvent(files) ==
    \/ \E f \in files : processFile(f)
    \/ \E i \in 1..MaxReads : ReaderOnload(i)

\* The mask canvas and its controls.
CanvasEvent ==
    \/ \E i \in 1..MaxLoads : ImageOnload(i)
    \/ RemoveImage
    \/ \E o \in Offsets : startDrawing(o)
    \/ \E o \in Offsets : draw(o)
    \/ stopDrawing
    \/ clearMask
    \/ \E b \in BrushSizes : SetBrushSize(b)

\* The result block.
ResultEvent ==
    \/ \E i \in 1..HistoryLimit : HistoryClick(i)
    \/ handleReEdit

\* The App as the user drives it through the mask editor: uploads, strokes
\* with the initial brush, edits and re-edits, collecting at most MaxResults
\* results.  Every control can be used while the pointer is still down on
\* the canvas (a touch that never ends, a control reached from the keyboard).
Next ==
    \/ ModeEvent
    \/ PromptEvent(SomePrompts)
    \/ UploadEvent(GoodFiles)
    \/ \E i \in 1..MaxLoads : ImageOnload(i)
    \/ RemoveImage
    \/ \E o \in Offsets : startDrawing(o)
    \/ \E o \in Offsets : draw(o)
    \/ stopDrawing
    \/ clearMask
    \/ ResultEvent
    \/ SettleEvent(GoodResponses)
    \/ ClickSubmit(MaxResults)

Spec == Init /\ [][Next]_vars

\* The mask editor alone: tabs, instruction, uploads and the canvas.
NextMask ==
    \/ ModeEvent
    \/ PromptEvent(SomePrompts)
    \/ UploadEvent(GoodFiles)
    \/ CanvasEvent

SpecMask == Init /\ [][NextMask]_vars

\* The App as the user drives it without painting: files accepted, rejected
\* and failing to read, removals, submits, every answer of the backend, and
\* the result block.
NextSession ==
    \/ ModeEvent
    \/ PromptEvent(SomePrompts)
    \/ UploadEvent(Files)
    \/ \E i \in 1..MaxReads : ReaderOnerror(i)
    \/ \E i \in 1..MaxLoads : ImageOnload(i)
    \/ RemoveImage
    \/ ResultEvent
    \/ SettleEvent(Responses)
    \/ ClickSubmit(MaxResults)

SpecSession == Init /\ [][NextSession]_vars

\* The same, with the backend answering every call in the end: fetch settles
\* and the continuation of the await runs.
SpecSessionFair == SpecSession /\ WF_vars(SettleEvent(Responses))

\* The App without the painting, submitting until the history is full and
\* once more.
NextHistory ==
    \/ ModeEvent
    \/ PromptEvent(SomePrompts)
    \/ AspectEvent
    \/ ResultEvent
    \/ SettleEvent(Responses)
    \/ ClickSubmit(HistoryLimit + 1)

SpecHistory == Init /\ [][NextHistory]_vars

\* The handlers invoked whatever the submit button's disabled attribute says.
NextHandlers ==
    \/ ModeEvent
    \/ PromptEvent(Prompts)
    \/ AspectEvent
    \/ UploadEvent(Files)
    \/ \E i \in 1..MaxReads : ReaderOnerror(i)
    \/ SettleEvent(Responses)
    \/ Len(history) < MaxResults /\ handleGenerate
    \/ Len(history) < MaxResults /\ handleEdit

SpecHandlers == Init /\ [][NextHandlers]_vars

\* handleGenerate invoked whatever the submit button's disabled attribute
\* says.
NextGenerate ==
    \/ PromptEvent(Prompts)
    \/ AspectEvent
    \/ SettleEvent(Responses)
    \/ Len(history) < MaxResults /\ handleGenerate

SpecGenerate == Init /\ [][NextGenerate]_vars

\* The handlers invoked whatever the submit button's disabled attribute
\* says, with the result block, until the history is full and once more.
NextResults ==
    \/ PromptEvent(SomePrompts)
    \/ ResultEvent
    \/ SettleEvent(Responses)
    \/ Len(history) <= HistoryLimit /\ handleGenerate
    \/ Len(history) <= HistoryLimit /\ handleEdit

SpecResults == Init /\ [][NextResults]_vars

\* The backend, request after request.
NextServer ==
    \/ \E b \in GenerateBodies : PostGenerate(b)
    \/ \E o \in GenerateOutcomes : GenerateSettles(o)
    \/ \E b \in EditBodies : PostEdit(b)
    \/ \E o \in EditOutcomes : EditSettles(o)
    \/ NextRequest

SpecServer == Init /\ [][NextServer]_vars

\* ------------------------------------------------------------- properties

\* t occurs in s as a run of consecutive tokens.
Contains(s, t) ==
    \E i \in 0..(Len(s) - Len(t)) : SubSeq(s, i + 1, i + Len(t)) = t

\* The step issues a call to the given endpoint.
Issues(endpoint) ==
    /\ Len(inflight') = Len(inflight) + 1
    /\ inflight'[Len(inflight')].endpoint = endpoint

\* C1: once clearMask has followed strokes, of whatever count and brush
\* size, and until the next stroke, getMaskAsBase64 returns null, and the
\* body of an edit submitted then carries no mask.
C1_ClearedMaskIsAbsent ==
    maskLog = "cleared" =>
        /\ getMaskAsBase64(canvas) = {<<>>}
        /\ uploadedImage # Null =>
              \A maskBase64 \in getMaskAsBase64(canvas) :
                 "maskBase64Data" \notin DOMAIN
                    EditBody(prompt, SplitComma1(uploadedImage.dataUrl),
                             uploadedImage.mimeType, maskBase64)

\* C1 witness: strokes with a brush other than the initial one were cleared
\* and the edit can be submitted.
C1_Witness ==
    /\ maskLog = "cleared"
    /\ canvas # Null
    /\ brushSize # InitialBrush
    /\ ~isEditDisabled

\* C2: an edit submitted while no stroke has been painted since
\* uploadedImage was set (upload, drop or handleReEdit) is sent without a
\* mask, also when it is submitted before the new image's onload has run.
C2_NewImageSentWithoutMask ==
    [][(maskLog = "fresh" /\ Issues("/api/edit"))
         => "maskBase64Data" \notin DOMAIN inflight'[Len(inflight')].body]_vars

\* C3: after a stroke with no clear, new image or image load since, and
\* with no image load pending, the editor's mask export is not null and is
\* a composite of the image's natural width and height whose pixels are
\* white or the stroke colour.
C3_StrokedMaskIsExported ==
    (maskLog = "stroked" /\ mode = "edit" /\ uploadedImage # Null
     /\ imageLoads = <<>>) =>
        /\ canvas # Null
        /\ <<>> \notin getMaskAsBase64(canvas)
        /\ LET composite == MaskComposite(canvas)
               size == NaturalSize(uploadedImage.dataUrl)
           IN  /\ composite.width = size[1]
               /\ composite.height = size[2]
               /\ \A s \in composite.over :
                    \A y \in ShapeRows(composite, s) :
                       \A x \in ShapeColumns(composite, s) :
                          CompositeAt(composite, x, y)
                              \subseteq {White, StrokeColour}

\* The backend answered an edit request whose model response held parts,
\* none of them an inline image, and some text.
TextOnlyAnswer ==
    /\ srvPc = "responded"
    /\ srvRequest.endpoint = "/api/edit"
    /\ srvOutcome # Null
    /\ srvOutcome.kind = "resolve"
    /\ \A i \in 1..Len(ResponseParts(srvOutcome.response)) :
          "inlineData" \notin DOMAIN ResponseParts(srvOutcome.response)[i]
    /\ ResponseText(srvOutcome.response) # <<>>

\* C4: a model response to an edit call that holds only text is answered
\* with HTTP 400 and an error message that includes that text, whatever the
\* text is.
C4_TextOnlyIs400 ==
    TextOnlyAnswer =>
        /\ srvResponse.status = 400
        /\ Contains(srvResponse.json.error, ResponseText(srvOutcome.response))

\* The backend called the model for an edit request.
EditCalled ==
    /\ srvRequest # Null
    /\ srvRequest.endpoint = "/api/edit"
    /\ srvCalls # <<>>

\* C5: an edit request without a mask gives a model request of exactly two
\* parts, the image with the given data and mimeType and the prompt
\* verbatim as text; and editImage leaves the mask field out of the body
\* when it has no mask.
C5_NoMaskTwoParts ==
    /\ (EditCalled /\ ~Truthy(srvRequest.body, "maskBase64Data")) =>
          /\ Len(srvCalls) = 1
          /\ srvCalls[1].contents.parts =
                << [inlineData |-> [data |-> srvRequest.body.imageBase64Data,
                                    mimeType |-> srvRequest.body.mimeType]],
                   [text |-> srvRequest.body.prompt] >>
    /\ \A p \in PromptValues, d \in ImageValues, m \in MimeValues :
          "maskBase64Data" \notin DOMAIN EditBody(p, d, m, <<>>)

\* C5 witness: the model was called for an edit request with no mask field.
C5_Witness ==
    /\ EditCalled
    /\ srvPc = "awaiting"
    /\ "maskBase64Data" \notin DOMAIN srvRequest.body

\* C6: an edit request with a mask gives a model request whose parts are
\* the image with its own mimeType, the mask tagged image/png, and the
\* instruction that quotes the prompt after the sentence on the BLACK and
\* white areas.
C6_MaskThreeParts ==
    (EditCalled /\ Truthy(srvRequest.body, "maskBase64Data")) =>
        LET parts == srvCalls[1].contents.parts
        IN  /\ Len(srvCalls) = 1
            /\ Len(parts) = 3
            /\ parts[1] = [inlineData |->
                              [data |-> srvRequest.body.imageBase64Data,
                               mimeType |-> srvRequest.body.mimeType]]
            /\ parts[2] = [inlineData |->
                              [data |-> srvRequest.body.maskBase64Data,
                               mimeType |-> MimePng]]
            /\ DOMAIN parts[3] = {"text"}
            /\ parts[3].text[1] = MaskInstructionHead
            /\ Contains(Tail(parts[3].text), srvRequest.body.prompt)

\* C6 witness: the model was called for an edit of a JPEG with a mask.
C6_Witness ==
    /\ EditCalled
    /\ srvPc = "awaiting"
    /\ Truthy(srvRequest.body, "maskBase64Data")
    /\ srvRequest.body.mimeType = MimeJpeg

\* A required field of the request is missing or empty.
MissingField ==
    IF srvRequest.endpoint = "/api/generate"
    THEN \E f \in {"prompt", "aspectRatio"} : ~Truthy(srvRequest.body, f)
    ELSE \E f \in {"prompt", "imageBase64Data", "mimeType"} :
            ~Truthy(srvRequest.body, f)

\* C7: a request with a missing required field is answered at once with
\* HTTP 400, and the external model is not called for it.
C7_MissingFieldIs400 ==
    (srvRequest # Null /\ MissingField) =>
        /\ srvPc = "responded"
        /\ srvResponse.status = 400
        /\ srvCalls = <<>>

\* C7 witness: an edit request with prompt and image but no mimeType was
\* answered.
C7_Witness ==
    /\ srvPc = "responded"
    /\ srvRequest.endpoint = "/api/edit"
    /\ Truthy(srvRequest.body, "prompt")
    /\ Truthy(srvRequest.body, "imageBase64Data")
    /\ "mimeType" \notin DOMAIN srvRequest.body

\* GenerationFailed: the model's answer to an edit holds no image data and
\* some text.
GenerationFailed ==
    /\ srvRequest.endpoint = "/api/edit"
    /\ srvOutcome.kind = "resolve"
    /\ \A i \in 1..Len(ResponseParts(srvOutcome.response)) :
          ~Truthy(ResponseParts(srvOutcome.response)[i], "inlineData")
          \/ ~Truthy(ResponseParts(srvOutcome.response)[i].inlineData, "data")
    /\ ResponseText(srvOutcome.response) # <<>>

\* The response the claim C8 asks for a failure raised after validation.
MappedFailure ==
    IF srvOutcome.kind = "reject"
    THEN IF srvOutcome.error.isError
            /\ Includes(srvOutcome.error.message, KeyNeedle)
         THEN [status |-> 401, json |-> [error |-> KeyMessage]]
         ELSE IF srvOutcome.error.isError
                 /\ Includes(srvOutcome.error.message, RateNeedle)
         THEN [status |-> 429, json |-> [error |-> RateMessage]]
         ELSE [status |-> 500, json |-> [error |-> GenericMessage]]
    ELSE IF GenerationFailed
    THEN [status |-> 400,
          json |-> [error |-> FailedMessage(ResponseText(srvOutcome.response))]]
    ELSE [status |-> 500, json |-> [error |-> GenericMessage]]

\* C8: a failure raised after validation is answered 401 for an upstream
\* authentication failure, 429 for a rate-limit signal, 400 with the model's
\* text for a text-only edit answer and 500 with the generic message
\* otherwise; no error response has a status outside 400, 401, 429, 500.
C8_FailureStatus ==
    (srvPc = "responded" /\ srvResponse.status # 200) =>
        /\ srvResponse.status \in {400, 401, 429, 500}
        /\ srvOutcome # Null => srvResponse = MappedFailure

\* C9: handleGenerate with an empty or blank prompt issues no call, sets
\* the error message and leaves isLoading as it was.
C9_EmptyPromptRejected ==
    [][(handleGenerate /\ \A i \in 1..Len(prompt) : prompt[i] = " ")
         => /\ inflight' = inflight
            /\ error' = PleaseEnterPrompt
            /\ isLoading' = isLoading]_vars

\* C9 witness: the handler rejected a blank prompt while nothing was loading.
C9_Witness ==
    /\ error = PleaseEnterPrompt
    /\ prompt = <<" ">>
    /\ inflight = <<>>
    /\ ~isLoading

\* C10: the history never holds more than 6 entries; a call that succeeds
\* puts its image at the head, before the entries it found, of which the
\* last is dropped when there were 6; no other step changes the history.
C10_HistoryNewestFirst ==
    /\ [](Len(history) <= HistoryLimit)
    /\ [][IF Len(inflight') < Len(inflight) /\ generatedImage' # <<>>
          THEN history' = <<generatedImage'>>
                          \o SubSeq(history, 1,
                                    Min(Len(history), HistoryLimit - 1))
          ELSE history' = history]_vars

\* C10 witness: a full history whose head is the result on display and
\* differs from the entry before it.
C10_Witness ==
    /\ Len(history) = HistoryLimit
    /\ history[1] # history[2]
    /\ generatedImage = history[1]
    /\ ~isLoading

\* C11: at most one generate or edit call is in flight, whatever the user
\* does between a submit and its completion: switching tabs, uploading or
\* removing an image, clicking the submit button again.
C11_OneCallInFlight == Len(inflight) <= 1

\* C11 witness: a generate call is in flight while the Edit tab holds an
\* image and an instruction, all a second submit would need.
C11_Witness ==
    /\ Len(inflight) = 1
    /\ inflight[1].endpoint = "/api/generate"
    /\ mode = "edit"
    /\ uploadedImage # Null
    /\ Trim(prompt) # <<>>

\* The step is the continuation of a call the backend answered with a
\* non-2xx status and a JSON body {error: m}, m being any string.
SettlesErrorBody(i, r) ==
    /\ Settle(i, r)
    /\ ~r.reject /\ ~HttpOk(r)
    /\ r.isJson /\ "error" \in DOMAIN r.json

\* C12: when the backend answers a call with a non-2xx status and a body
\* {error: m}, the message shown is exactly m and the failure the transport
\* throws carries the backend's status code.
C12_BackendMessageShown ==
    [][\A i \in 1..MaxInflight, r \in Responses :
          SettlesErrorBody(i, r) =>
             /\ error' = r.json.error
             /\ "status" \in DOMAIN fetchApi(r).error
             /\ fetchApi(r).error.status = r.status]_vars

\* C13: with an image uploaded and none of its loads pending, the mask
\* canvas has the natural width and height of the uploaded image, whatever
\* uploads, removals and re-edits came before and in whatever order their
\* image loads completed; and a mask sent with an edit request has the
\* width and height of the image sent with it.
C13_MaskMatchesImage ==
    /\ []((canvas # Null /\ uploadedImage # Null /\ imageLoads = <<>>) =>
             <<canvas.width, canvas.height>> = NaturalSize(uploadedImage.dataUrl))
    /\ [][(Issues("/api/edit")
            /\ "maskBase64Data" \in DOMAIN inflight'[Len(inflight')].body) =>
             LET size == NaturalSize(uploadedImage.dataUrl)
             IN  inflight'[Len(inflight')].body.maskBase64Data =
                    SplitComma1(toDataURL([width |-> size[1],
                                           height |-> size[2],
                                           over |-> canvas.shapes]))]_vars

\* C14: an accepted submit runs to its end: with the backend answering
\* every call, isLoading becomes false again, and when it does exactly one
\* of a generated image and an error message is on record.
C14_SubmitCompletes ==
    /\ isLoading ~> ~isLoading
    /\ [][(isLoading /\ ~isLoading') =>
             (generatedImage' # <<>>) # (error' # <<>>)]_vars

\* The step is the continuation of a call the backend answered with a 2xx
\* status and a JSON body without the imageBase64 field.
SettlesWithoutImage(i, r) ==
    /\ Settle(i, r)
    /\ ~r.reject /\ HttpOk(r)
    /\ r.isJson /\ "imageBase64" \notin DOMAIN r.json

\* C15: a 2xx answer without the imageBase64 field makes the call fail: the
\* service throws, the error names the missing data, no generated image is
\* set and the history stays as it was.
C15_MissingImageFails ==
    [][\A i \in 1..MaxInflight, r \in Responses :
          SettlesWithoutImage(i, r) =>
             /\ ImageFromResponse(r).kind = "throw"
             /\ Contains(error', MissingImage)
             /\ generatedImage' = <<>>
             /\ history' = history
             /\ ~isLoading']_vars

\* C15 witness: the missing-image error is on display after an earlier
\* call had succeeded.
C15_Witness ==
    /\ error = <<"Failed to generate image: ">> \o MissingImage
    /\ generatedImage = <<>>
    /\ history # <<>>
    /\ ~isLoading

\* C16: a press on the mask canvas followed by the release with no move in
\* between marks the filled circle of the brush radius at the click point:
\* after the release every pixel that lies whole in that disk holds the
\* stroke colour, every pixel the disk covers in part is marked, the canvas
\* is not empty and the export is not null.
C16_ClickMarksCircle ==
    [][(clickLog = "pressed" /\ clickLog' = "none") =>
          LET circle == Arc(lastPos, brushSize)
          IN  /\ \A y \in ShapeRows(canvas', circle) :
                    \A x \in ShapeColumns(canvas', circle) :
                       /\ Full(circle, x, y) =>
                             PixelAt(canvas', x, y) = {StrokeColour}
                       /\ Touches(circle, x, y) =>
                             PixelAt(canvas', x, y) # {Transparent}
              /\ isCanvasEmpty(canvas') = {FALSE}
              /\ <<>> \notin getMaskAsBase64(canvas')]_vars

\* C17: in no reachable state of the App is isLoading true while error is
\* not null, however submits, completions, uploads (accepted or rejected)
\* and file-read failures interleave.
C17_NeverLoadingWithError == ~(isLoading /\ error # <<>>)

\* The step is processFile given a file that is not PNG, JPEG or WEBP, or
\* that is larger than 8MB.
RejectsFile(f) ==
    /\ processFile(f)
    /\ \/ f.type \notin {MimePng, MimeJpeg, MimeWebp}
       \/ f.size > 8 * 1024 * 1024

\* C18: an upload rejected for its type or its size sets an error message,
\* starts no file read, leaves the uploaded image and the mask canvas as
\* they were and issues no backend call.
C18_RejectedUploadIsLocal ==
    [][\A f \in Files :
          RejectsFile(f) =>
             /\ error' \in {InvalidFileType, FileTooLarge}
             /\ fileReads' = fileReads
             /\ uploadedImage' = uploadedImage
             /\ canvas' = canvas /\ imageLoads' = imageLoads
             /\ inflight' = inflight /\ isLoading' = isLoading]_vars

\* C18 witness: an oversize file was rejected, a result is in the history
\* and nothing is pending.
C18_Witness ==
    /\ error = FileTooLarge
    /\ history # <<>>
    /\ uploadedImage = Null
    /\ fileReads = <<>>
    /\ inflight = <<>>

\* The step is the continuation of a call that failed.
SettlesFailed ==
    \E i \in 1..MaxInflight, r \in Responses :
        Settle(i, r) /\ ImageFromResponse(r).kind = "throw"

\* The step is a handler returning at one of its validations.
SubmitRejected ==
    /\ handleGenerate \/ handleEdit
    /\ inflight' = inflight

\* C19: a generated image on display is one of the entries of the history;
\* a failed call and a rejected submit leave the history as it was.
C19_DisplayedIsInHistory ==
    /\ [](generatedImage # <<>> =>
             \E i \in 1..Len(history) : history[i] = generatedImage)
    /\ [][(SettlesFailed \/ SubmitRejected) => history' = history]_vars

\* C19 witness: the oldest entry of a full history, picked from the history,
\* is still the generated image after a submit was rejected or a call failed.
C19_Witness ==
    /\ Len(history) = HistoryLimit
    /\ generatedImage = history[HistoryLimit]
    /\ generatedImage # history[1]
    /\ error # <<>>
    /\ ~isLoading

====
